---- MODULE Spec2Model ----
(***************************************************************************)
(* A model of app.py (Better Spotify): the access gate, the playlist sync  *)
(* handler of tab 1 (track resolution, download, upload) and the library   *)
(* browser of tab 2, each script run of a Streamlit session seen as a      *)
(* sequence of steps.                                                      *)
(*                                                                         *)
(* Python strings are sequences of one-character strings, so that strip,   *)
(* split, join, startswith, endswith and the substring test are computed   *)
(* as Python computes them.                                                *)
(***************************************************************************)
EXTENDS Integers, Sequences, FiniteSets, TLC

(***************************************************************************)
(* Python string helpers                                                   *)
(***************************************************************************)

\* the characters str.strip() removes
Whitespace == {" ", "\t", "\n"}

Letters == {"a","b","c","d","e","f","g","h","i","j","k","l","m","n","o","p","q",
            "r","s","t","u","v","w","x","y","z","A","B","C","D","E","F","G","H",
            "I","J","K","L","M","N","O","P","Q","R","S","T","U","V","W","X","Y","Z"}

Digits == {"0","1","2","3","4","5","6","7","8","9"}

\* c.isalnum()
IsAlnum(c) == c \in Letters \cup Digits

RECURSIVE LStrip(_)
LStrip(s) ==
    IF s # <<>> /\ Head(s) \in Whitespace THEN LStrip(Tail(s)) ELSE s

RECURSIVE RStrip(_)
RStrip(s) ==
    IF s # <<>> /\ s[Len(s)] \in Whitespace
    THEN RStrip(SubSeq(s, 1, Len(s) - 1)) ELSE s

\* s.strip()
Strip(s) == RStrip(LStrip(s))

\* s.rstrip(c)
RECURSIVE RStripChar(_, _)
RStripChar(s, c) ==
    IF s # <<>> /\ s[Len(s)] = c
    THEN RStripChar(SubSeq(s, 1, Len(s) - 1), c) ELSE s

\* s.split(sep) for a one-character separator: always at least one part
RECURSIVE Split(_, _)
Split(s, sep) ==
    IF \A k \in 1..Len(s) : s[k] # sep
    THEN <<s>>
    ELSE LET k == CHOOSE k \in 1..Len(s) :
                     s[k] = sep /\ \A j \in 1..(k - 1) : s[j] # sep
         IN  <<SubSeq(s, 1, k - 1)>> \o Split(SubSeq(s, k + 1, Len(s)), sep)

\* sep.join(parts)
RECURSIVE Join(_, _)
Join(sep, parts) ==
    IF parts = <<>> THEN <<>>
    ELSE IF Len(parts) = 1 THEN parts[1]
    ELSE parts[1] \o sep \o Join(sep, Tail(parts))

\* s.startswith(p), s.endswith(p), p in s
StartsWith(s, p) == Len(p) <= Len(s) /\ SubSeq(s, 1, Len(p)) = p

EndsWith(s, p) ==
    Len(p) <= Len(s) /\ SubSeq(s, Len(s) - Len(p) + 1, Len(s)) = p

Contains(s, p) ==
    \E k \in 0..(Len(s) - Len(p)) : SubSeq(s, k + 1, k + Len(p)) = p

(***************************************************************************)
(* extract_playlist_id                                                     *)
(***************************************************************************)

\* the length a URL part must have to be taken for the playlist id
IdLen == 22

\* the parts the loop of extract_playlist_id goes over
UrlParts(playlist_url) == Split(Split(Strip(playlist_url), "?")[1], "/")

\* extract_playlist_id: the first part of IdLen characters, or ValueError
extract_playlist_id(playlist_url) ==
    LET parts == UrlParts(playlist_url)
        hits  == {k \in 1..Len(parts) : Len(parts[k]) = IdLen}
    IN  IF hits = {}
        THEN [raised |-> TRUE, value |-> <<>>]
        ELSE [raised |-> FALSE,
              value  |-> parts[CHOOSE k \in hits : \A j \in hits : k <= j]]

(***************************************************************************)
(* State                                                                   *)
(***************************************************************************)

VARIABLES
    \* the world outside the script
    access_config,      \* where get_secret("ACCESS_CODE") may find a value
    query_code,         \* st.query_params["code"], or NoCode
    server,             \* the metadata API: the playlist it knows, page by page
    store,              \* the bucket: the set of object keys
    tmp_dirs,           \* the temporary directories that exist: name -> files
    \* st.session_state and the widgets' state
    authenticated,
    current_index,
    selected_playlist,
    playlist_url,
    folder_name,
    \* the script run
    pc,                 \* where the run is
    event,              \* the widget event that started the run
    safe_name,
    playlist_id,
    url,                \* get_playlist_tracks: the page to request next
    all_tracks,
    canciones,
    i,
    downloaded,
    \* what the run has shown and done
    errors,             \* st.error messages, in order
    progress,           \* progress_bar.progress values, in order
    done,               \* the completion message was shown
    http_log,           \* requests to the metadata API, in order
    fetch_log,          \* download_song's result for each track tried
    writes,             \* keys uploaded, in order
    selector_call,      \* the song selectbox call of this run
    run_auth,           \* authenticated, as the run began
    run_ops             \* the storage and sync operations of this run

env == <<access_config, query_code, server>>

widgets == <<playlist_url, folder_name, selected_playlist>>

resolveVars == <<playlist_id, url, all_tracks, http_log>>

loopVars == <<canciones, i, downloaded, tmp_dirs, fetch_log, writes, progress, done>>

vars == <<access_config, query_code, server, store, tmp_dirs, authenticated,
          current_index, selected_playlist, playlist_url, folder_name, pc, event,
          safe_name, playlist_id, url, all_tracks, canciones, i, downloaded,
          errors, progress, done, http_log, fetch_log, writes, selector_call,
          run_auth, run_ops>>

(***************************************************************************)
(* Values                                                                  *)
(***************************************************************************)

\* a character repeated n times
Rep(c, n) == [k \in 1..n |-> c]

\* "https://open.spotify.com/playlist/"
PlaylistUrlPrefix == <<"h","t","t","p","s",":","/","/","o","p","e","n",".","s","p","o","t","i","f","y",".","c","o","m","/","p","l","a","y","l","i","s","t","/">>

\* the substring the start-sync handler looks for: "spotify.com/playlist"
SpotifyMark == <<"s","p","o","t","i","f","y",".","c","o","m","/","p","l","a","y","l","i","s","t">>

Mp3Ext == <<".","m","p","3">>

\* the playlist the metadata API knows
KnownId == Rep("a", IdLen)

\* a second well-formed identifier, of a playlist the API does not know
OtherId == Rep("b", IdLen)

\* IdLen characters that are no identifier (a host name: it has dots)
HostLike == Rep("x", 5) \o <<".","o","p","e","n",".","s","p","o","t","i","f","y",".","c","o","m">>

\* a well-formed playlist identifier: IdLen letters and digits
IsValidId(s) == Len(s) = IdLen /\ \A k \in 1..Len(s) : IsAlnum(s[k])

GoodUrl == PlaylistUrlPrefix \o KnownId

\* the URL of a playlist page whose identifier is cut short
ShortIdUrl == PlaylistUrlPrefix \o Rep("a", IdLen - 1)

\* no Spotify playlist URL at all
ForeignUrl == <<"h","t","t","p","s",":","/","/","e","x","a","m","p","l","e",".","o","r","g","/","x">>

\* the playlist page, reached through a host name of IdLen characters
HostUrl == <<"h","t","t","p","s",":","/","/">> \o HostLike \o <<"/","p","l","a","y","l","i","s","t","/">> \o KnownId

\* absent values
NoCode == "<None>"

NoIndex == -1

NoUrl == [kind |-> "none", id |-> <<>>, page |-> 0]

NoPath == [dir |-> -1, name |-> <<>>]

NoCall == [called |-> FALSE, index |-> 0, options |-> 0]

NoEvent == [kind |-> "load", code |-> NoCode, index |-> 0, playlist |-> <<>>]

\* requests to the metadata API
TokenUrl == [kind |-> "token", id |-> <<>>, page |-> 0]

TracksUrl(id) == [kind |-> "tracks", id |-> id, page |-> 1]

NextUrl(k) == [kind |-> "next", id |-> <<>>, page |-> k]

(***************************************************************************)
(* get_secret                                                              *)
(***************************************************************************)

DefaultCode == "mi_codigo_secreto_123"

\* get_secret(key, default): the environment (unless unset or empty), then
\* st.secrets, then /etc/secrets/secrets.toml, then the default
get_secret(config, default) ==
    IF config.env # NoCode /\ config.env # ""
    THEN config.env
    ELSE IF config.secrets # NoCode THEN config.secrets
    ELSE IF config.file # NoCode THEN config.file
    ELSE default

(***************************************************************************)
(* The metadata API                                                        *)
(***************************************************************************)

\* an entry of a page: whether it has a track, the track's name and artists
Entry(t, n, a) == [track |-> t, name |-> n, artists |-> a]

SongOne == Entry(TRUE, <<"S">>, << <<"A">> >>)

\* a track one of whose artists has an empty name
SongTwo == Entry(TRUE, <<"T">>, << <<"A">>, <<>> >>)

Nameless == Entry(TRUE, <<>>, << <<"A">> >>)

NoArtists == Entry(TRUE, <<"S">>, <<>>)

NoTrack == Entry(FALSE, <<>>, <<>>)

\* all sequences over S of length at most n
SeqsUpTo(S, n) == UNION {[1..k -> S] : k \in 0..n}

\* the server that answers with the given pages, each pointing to the next
MkServer(pageItems) ==
    [playlist_id |-> KnownId,
     pages |-> [k \in 1..Len(pageItems) |->
                  [items |-> pageItems[k],
                   next  |-> IF k < Len(pageItems) THEN NextUrl(k + 1) ELSE NoUrl]]]

\* the answer to a request: the page, or a 404 for a playlist it does not know
Respond(srv, u) ==
    IF u.kind = "tracks"
    THEN IF u.id = srv.playlist_id
         THEN [ok |-> TRUE, data |-> srv.pages[1]]
         ELSE [ok |-> FALSE, data |-> [items |-> <<>>, next |-> NoUrl]]
    ELSE [ok |-> TRUE, data |-> srv.pages[u.page]]

\* f"{name} - {', '.join(artists)}"
Label(name, artists) == name \o <<" ","-"," ">> \o Join(<<","," ">>, artists)

\* the labels get_playlist_tracks appends for the items of one page
\* a variant of PageTracks: an entry is also dropped when one of its artists
\* has an empty name
RECURSIVE PageTracksNamedArtists(_)
PageTracksNamedArtists(items) ==
    IF items = <<>> THEN <<>>
    ELSE LET item == Head(items)
         IN  (IF /\ item.track
                 /\ item.name # <<>>
                 /\ item.artists # <<>>
                 /\ \A k \in 1..Len(item.artists) : item.artists[k] # <<>>
              THEN <<item.name \o <<" ", "-", " ">> \o Join(<<",", " ">>, item.artists)>>
              ELSE <<>>) \o PageTracksNamedArtists(Tail(items))

RECURSIVE PageTracks(_)
PageTracks(items) ==
    IF items = <<>> THEN <<>>
    ELSE LET item == Head(items)
         IN  (IF item.track /\ item.name # <<>> /\ item.artists # <<>>
              THEN <<Label(item.name, item.artists)>>
              ELSE <<>>) \o PageTracks(Tail(items))

(***************************************************************************)
(* The bucket                                                              *)
(***************************************************************************)

\* the start-sync handler's safe_name
Sanitize(name) ==
    Strip(SelectSeq(name, LAMBDA c : IsAlnum(c) \/ c \in {" ", "-", "_"}))

\* upload_song_to_b2's key
KeyOf(playlist_name, filename) == playlist_name \o <<"/">> \o filename

\* list_playlists: the common prefixes up to the first "/", the "/" stripped
list_playlists(keys) ==
    {RStripChar(Split(k, "/")[1] \o <<"/">>, "/") : k \in {x \in keys : Contains(x, <<"/">>)}}

\* list_songs_in_playlist: the keys under the folder that end in ".mp3"
list_songs_in_playlist(keys, playlist_name) ==
    {k \in keys : StartsWith(k, playlist_name \o <<"/">>) /\ EndsWith(k, Mp3Ext)}

SongOneFile == <<"s","1",".","m","p","3">>

SongTwoFile == <<"s","2",".","m","p","3">>

VideoFile == <<"v",".","w","e","b","m">>

\* what the downloader may leave in the directory it is given
DownloadFiles == {SongOneFile, SongTwoFile, VideoFile}

\* download_song's result: a file of the directory that ends in ".mp3", or None
DownloadResults(dir, files) ==
    LET mp3 == {f \in files : EndsWith(f, Mp3Ext)}
    IN  IF mp3 = {} THEN {NoPath} ELSE {[dir |-> dir, name |-> f] : f \in mp3}

\* os.path.exists
PathExists(dirs, path) ==
    path.dir \in DOMAIN dirs /\ path.name \in dirs[path.dir]

\* folder names typed into the form
FolderNames == {<<>>, <<" ">>, <<"#","#","#">>, <<"M","y"," ","M","i","x","!"," ","#","1">>, <<"a","_","b","-","c">>, <<" "," ","x"," "," ">>}

(***************************************************************************)
(* A script run                                                            *)
(***************************************************************************)

\* the values a run starts with: nothing shown, nothing done
FreshRun ==
    /\ safe_name' = <<>>
    /\ playlist_id' = <<>>
    /\ url' = NoUrl
    /\ all_tracks' = <<>>
    /\ canciones' = <<>>
    /\ i' = 0
    /\ downloaded' = NoPath
    /\ errors' = <<>>
    /\ progress' = <<>>
    /\ done' = FALSE
    /\ http_log' = <<>>
    /\ fetch_log' = <<>>
    /\ writes' = <<>>
    /\ selector_call' = NoCall
    /\ run_ops' = {}

\* the script starts over, from check_access, for the event ev
StartRun(ev, auth) ==
    /\ pc' = "check_access"
    /\ event' = ev
    /\ run_auth' = auth
    /\ FreshRun

\* the try block of the start-sync handler ends in its except clause:
\* st.error(str(e)), and the script goes on to tab 2
Except(e) ==
    /\ errors' = Append(errors, e)
    /\ pc' = "tab2"

(***************************************************************************)
(* Tab 1: the start-sync handler                                           *)
(***************************************************************************)

\* the button's handler up to the call of get_playlist_tracks
Tab1 ==
    /\ pc = "tab1"
    /\ IF event.kind # "sync"
       THEN /\ pc' = "tab2"
            /\ UNCHANGED <<errors, safe_name, run_ops>>
       ELSE IF playlist_url = <<>>
       THEN /\ errors' = Append(errors, "Introduce la URL de la playlist")
            /\ pc' = "tab2"
            /\ UNCHANGED <<safe_name, run_ops>>
       ELSE IF Strip(folder_name) = <<>>
       THEN /\ errors' = Append(errors, "Introduce un nombre para la carpeta")
            /\ pc' = "tab2"
            /\ UNCHANGED <<safe_name, run_ops>>
       ELSE IF ~Contains(playlist_url, SpotifyMark)
       THEN /\ errors' = Append(errors, "URL no valida")
            /\ pc' = "tab2"
            /\ UNCHANGED <<safe_name, run_ops>>
       ELSE /\ safe_name' = Sanitize(folder_name)
            /\ run_ops' = run_ops \cup {"sync"}
            /\ pc' = "token"
            /\ UNCHANGED errors
    /\ UNCHANGED <<env, widgets, store, authenticated, current_index, event,
                   resolveVars, loopVars, selector_call, run_auth>>

\* get_spotify_access_token returns a token
GetToken ==
    /\ pc = "token"
    /\ http_log' = Append(http_log, TokenUrl)
    /\ pc' = "extract"
    /\ UNCHANGED <<env, widgets, store, authenticated, current_index, event,
                   safe_name, playlist_id, url, all_tracks, loopVars, errors,
                   selector_call, run_auth, run_ops>>

\* get_spotify_access_token raises (raise_for_status, or the request itself)
TokenRaises ==
    /\ pc = "token"
    /\ http_log' = Append(http_log, TokenUrl)
    /\ Except("HTTPError")
    /\ UNCHANGED <<env, widgets, store, authenticated, current_index, event,
                   safe_name, playlist_id, url, all_tracks, loopVars,
                   selector_call, run_auth, run_ops>>

\* get_playlist_tracks: the identifier and the first page's URL
ExtractId ==
    /\ pc = "extract"
    /\ LET r == extract_playlist_id(playlist_url)
       IN  IF r.raised
           THEN /\ Except("ValueError")
                /\ UNCHANGED <<playlist_id, url>>
           ELSE /\ playlist_id' = r.value
                /\ url' = TracksUrl(r.value)
                /\ pc' = "page"
                /\ UNCHANGED errors
    /\ UNCHANGED <<env, widgets, store, authenticated, current_index, event,
                   safe_name, all_tracks, http_log, loopVars, selector_call,
                   run_auth, run_ops>>

\* one turn of "while url": the page is fetched, its tracks appended, and url
\* becomes the page's next pointer; the function returns when that is None
GetPage ==
    /\ pc = "page"
    /\ Respond(server, url).ok
    /\ LET data == Respond(server, url).data
       IN  /\ all_tracks' = all_tracks \o PageTracks(data.items)
           /\ url' = data.next
           /\ pc' = IF data.next = NoUrl THEN "resolved" ELSE "page"
    /\ http_log' = Append(http_log, url)
    /\ UNCHANGED <<env, widgets, store, authenticated, current_index, event,
                   safe_name, playlist_id, loopVars, errors, selector_call,
                   run_auth, run_ops>>

\* a variant of PageRaises: the error is shown, and the resolution returns
\* the tracks of the pages it got
PageRaisesPartial ==
    /\ pc = "page"
    /\ http_log' = Append(http_log, url)
    /\ errors' = Append(errors, "HTTPError")
    /\ pc' = "resolved"
    /\ UNCHANGED <<env, widgets, store, authenticated, current_index, event,
                   safe_name, playlist_id, url, all_tracks, loopVars,
                   selector_call, run_auth, run_ops>>

\* one turn of "while url" in which the request fails
PageRaises ==
    /\ pc = "page"
    /\ http_log' = Append(http_log, url)
    /\ Except("HTTPError")
    /\ UNCHANGED <<env, widgets, store, authenticated, current_index, event,
                   safe_name, playlist_id, url, all_tracks, loopVars,
                   selector_call, run_auth, run_ops>>

\* canciones = get_playlist_tracks(...), and the progress bar is set up
FoundTracks ==
    /\ pc = "resolved"
    /\ canciones' = all_tracks
    /\ i' = 0
    /\ pc' = "loop"
    /\ UNCHANGED <<env, widgets, store, authenticated, current_index, event,
                   safe_name, resolveVars, downloaded, tmp_dirs, fetch_log,
                   writes, progress, done, errors, selector_call, run_auth,
                   run_ops>>

\* the directories left when the "with" block of iteration d is left
Cleanup(dirs, d) == [x \in DOMAIN dirs \ {d} |-> dirs[x]]

\* the loop takes the next track and enters "with TemporaryDirectory()"
EnterTmp ==
    /\ pc = "loop"
    /\ i < Len(canciones)
    /\ tmp_dirs' = [x \in DOMAIN tmp_dirs \cup {i} |->
                      IF x = i THEN {} ELSE tmp_dirs[x]]
    /\ pc' = "download"
    /\ UNCHANGED <<env, widgets, store, authenticated, current_index, event,
                   safe_name, resolveVars, canciones, i, downloaded, fetch_log,
                   writes, progress, done, errors, selector_call, run_auth,
                   run_ops>>

\* download_song returns: the downloader has left some files in the
\* directory, and the result is one that ends in ".mp3", or None
DownloadSong ==
    /\ pc = "download"
    /\ \E files \in SUBSET DownloadFiles :
         /\ tmp_dirs' = [tmp_dirs EXCEPT ![i] = files]
         /\ \E path \in DownloadResults(i, files) :
              /\ downloaded' = path
              /\ fetch_log' = Append(fetch_log, path)
    /\ pc' = "downloaded"
    /\ UNCHANGED <<env, widgets, store, authenticated, current_index, event,
                   safe_name, resolveVars, canciones, i, writes, progress, done,
                   errors, selector_call, run_auth, run_ops>>

\* a variant of DownloadRaises: the error is caught inside the loop, shown,
\* and the track counted as skipped
DownloadRaisesSkip ==
    /\ pc = "download"
    /\ tmp_dirs' = [x \in DOMAIN tmp_dirs \ {i} |-> tmp_dirs[x]]
    /\ errors' = Append(errors, "DownloadError")
    /\ progress' = Append(progress, <<i + 1, Len(canciones)>>)
    /\ i' = i + 1
    /\ pc' = "loop"
    /\ UNCHANGED <<env, widgets, store, authenticated, current_index, event,
                   safe_name, resolveVars, canciones, downloaded, fetch_log,
                   writes, done, selector_call, run_auth, run_ops>>

\* download_song raises: the "with" block is left, and so is the loop
DownloadRaises ==
    /\ pc = "download"
    /\ tmp_dirs' = Cleanup(tmp_dirs, i)
    /\ Except("DownloadError")
    /\ UNCHANGED <<env, widgets, store, authenticated, current_index, event,
                   safe_name, resolveVars, canciones, i, downloaded, fetch_log,
                   writes, progress, done, selector_call, run_auth, run_ops>>

\* a variant of Usable: the result of download_song is not looked at
UsableUnchecked(dirs, path) == TRUE

\* "if downloaded and os.path.exists(downloaded)"
Usable(dirs, path) == path # NoPath /\ PathExists(dirs, path)

\* upload_song_to_b2 puts the file under the folder
UploadSong ==
    /\ pc = "downloaded"
    /\ Usable(tmp_dirs, downloaded)
    /\ store' = store \cup {KeyOf(safe_name, downloaded.name)}
    /\ writes' = Append(writes, KeyOf(safe_name, downloaded.name))
    /\ run_ops' = run_ops \cup {"write"}
    /\ pc' = "uploaded"
    /\ UNCHANGED <<env, widgets, authenticated, current_index, event, safe_name,
                   resolveVars, canciones, i, downloaded, tmp_dirs, fetch_log,
                   progress, done, errors, selector_call, run_auth>>

\* a variant of UploadRaises: the directory is not removed on the way out
UploadRaisesLeak ==
    /\ pc = "downloaded"
    /\ downloaded # NoPath
    /\ run_ops' = run_ops \cup {"write"}
    /\ errors' = Append(errors, "UploadError")
    /\ pc' = "tab2"
    /\ UNCHANGED <<env, widgets, store, authenticated, current_index, event,
                   safe_name, resolveVars, canciones, i, downloaded, tmp_dirs,
                   fetch_log, writes, progress, done, selector_call, run_auth>>

\* upload_song_to_b2 raises: the "with" block is left, and so is the loop
UploadRaises ==
    /\ pc = "downloaded"
    /\ Usable(tmp_dirs, downloaded)
    /\ tmp_dirs' = Cleanup(tmp_dirs, i)
    /\ run_ops' = run_ops \cup {"write"}
    /\ Except("UploadError")
    /\ UNCHANGED <<env, widgets, store, authenticated, current_index, event,
                   safe_name, resolveVars, canciones, i, downloaded, fetch_log,
                   writes, progress, done, selector_call, run_auth>>

\* a variant of ExitTmp: the progress bar is moved only after an upload
ExitTmpProgressOnUpload ==
    /\ \/ pc = "uploaded"
       \/ pc = "downloaded" /\ downloaded = NoPath
    /\ tmp_dirs' = [x \in DOMAIN tmp_dirs \ {i} |-> tmp_dirs[x]]
    /\ progress' = IF pc = "uploaded"
                   THEN Append(progress, <<i + 1, Len(canciones)>>)
                   ELSE progress
    /\ i' = i + 1
    /\ pc' = "loop"
    /\ UNCHANGED <<env, widgets, store, authenticated, current_index, event,
                   safe_name, resolveVars, canciones, downloaded, fetch_log,
                   writes, done, errors, selector_call, run_auth, run_ops>>

\* the "with" block ends (after the upload, or with nothing to upload) and
\* the progress bar is moved
ExitTmp ==
    /\ \/ pc = "uploaded"
       \/ pc = "downloaded" /\ ~Usable(tmp_dirs, downloaded)
    /\ tmp_dirs' = Cleanup(tmp_dirs, i)
    /\ progress' = Append(progress, <<i + 1, Len(canciones)>>)
    /\ i' = i + 1
    /\ pc' = "loop"
    /\ UNCHANGED <<env, widgets, store, authenticated, current_index, event,
                   safe_name, resolveVars, canciones, downloaded, fetch_log,
                   writes, done, errors, selector_call, run_auth, run_ops>>

\* the loop is over: the completion message
Finish ==
    /\ pc = "loop"
    /\ i >= Len(canciones)
    /\ done' = TRUE
    /\ pc' = "tab2"
    /\ UNCHANGED <<env, widgets, store, authenticated, current_index, event,
                   safe_name, resolveVars, canciones, i, downloaded, tmp_dirs,
                   fetch_log, writes, progress, errors, selector_call, run_auth,
                   run_ops>>

Resolve ==
    GetToken \/ TokenRaises \/ ExtractId \/ GetPage \/ PageRaises

Sync ==
    Tab1 \/ Resolve \/ FoundTracks \/ EnterTmp \/ DownloadSong \/ DownloadRaises
         \/ UploadSong \/ UploadRaises \/ ExitTmp \/ Finish

(***************************************************************************)
(* The start-sync handler, from the press of the button                    *)
(***************************************************************************)

\* the most tracks a playlist of the sync runs has
MaxTracks == 3

\* the most pages the tracks of a sync run come in
SyncPages == 2

\* the ways to cut a sequence of len entries into n pages: where each page ends
Cuts(len, n) ==
    {c \in [1..n -> 0..len] :
        /\ c[n] = len
        /\ \A k \in 1..(n - 1) : c[k] <= c[k + 1]}

\* the pages of the entries, page k ending at cut[k]
CutAt(entries, cut) ==
    [k \in 1..Len(cut) |->
        SubSeq(entries, (IF k = 1 THEN 0 ELSE cut[k - 1]) + 1, cut[k])]

\* the server is one whose playlist has at most maxItems entries, all from
\* the set given, on at most maxPages pages
ServerAmong(entrySet, maxItems, maxPages) ==
    \E entries \in SeqsUpTo(entrySet, maxItems) :
        \E n \in 1..maxPages :
            \E cut \in Cuts(Len(entries), n) :
                server = MkServer(CutAt(entries, cut))

SyncUrls ==
    {<<>>, ForeignUrl, GoodUrl, ShortIdUrl, HostUrl, PlaylistUrlPrefix \o OtherId}

\* the bucket before the run: empty, or with a song from an earlier run
InitStores == {{}, {KeyOf(<<"x">>, SongOneFile)}}

SyncEvent == [kind |-> "sync", code |-> NoCode, index |-> 0, playlist |-> <<>>]

EnvConfig(code) == [env |-> code, secrets |-> NoCode, file |-> NoCode]

\* a run that has nothing shown and nothing done yet
Fresh ==
    /\ safe_name = <<>>
    /\ playlist_id = <<>>
    /\ url = NoUrl
    /\ all_tracks = <<>>
    /\ canciones = <<>>
    /\ i = 0
    /\ downloaded = NoPath
    /\ errors = <<>>
    /\ progress = <<>>
    /\ done = FALSE
    /\ http_log = <<>>
    /\ fetch_log = <<>>
    /\ writes = <<>>
    /\ selector_call = NoCall
    /\ run_ops = {}

\* an authenticated session's run in which the button was pressed, at tab 1
Init ==
    /\ access_config = EnvConfig("s3cret")
    /\ query_code = NoCode
    /\ ServerAmong({SongOne}, MaxTracks, SyncPages)
    /\ store \in InitStores
    /\ tmp_dirs = [x \in {} |-> {}]
    /\ authenticated = TRUE
    /\ current_index = NoIndex
    /\ selected_playlist = <<>>
    /\ playlist_url \in SyncUrls
    /\ folder_name \in FolderNames
    /\ pc = "tab1"
    /\ event = SyncEvent
    /\ run_auth = TRUE
    /\ Fresh

Next == Sync

Spec == Init /\ [][Next]_vars

(***************************************************************************)
(* Claims about the start-sync handler (under Spec)                        *)
(***************************************************************************)

Range(s) == {s[k] : k \in 1..Len(s)}

\* the run's try block ended in the except clause with an error of resolution
ResolutionFailed ==
    errors # <<>> /\ errors[1] \in {"HTTPError", "ValueError"}

\* the run's try block ended with an error raised inside the loop
TrackRaised ==
    errors # <<>> /\ errors[1] \in {"DownloadError", "UploadError"}

\* the paths of fetch_log that are not None, in order
Fetched == SelectSeq(fetch_log, LAMBDA p : p # NoPath)

\* the keys the fetched paths are written to, in order
FetchedKeys == [k \in 1..Len(Fetched) |-> KeyOf(safe_name, Fetched[k].name)]

\* C1 (as claimed): with a folder name whose sanitized form is empty the sync
\* fails with an error before anything is done: no request is made to the
\* metadata API, no track is fetched and no object is written.
C1_EmptySanitizedNameFails ==
    Sanitize(folder_name) = <<>> =>
        /\ http_log = <<>>
        /\ fetch_log = <<>>
        /\ writes = <<>>
        /\ ~done
        /\ pc = "tab2" => errors # <<>>

\* C2: when track resolution fails (token, identifier or any page), the run
\* ends with that one error and nothing is synced: no temporary directory, no
\* fetch, no write, no progress value and no completion message.
C2_ResolutionFailureSyncsNothing ==
    ResolutionFailed =>
        /\ pc = "tab2"
        /\ Len(errors) = 1
        /\ DOMAIN tmp_dirs = {}
        /\ canciones = <<>>
        /\ fetch_log = <<>>
        /\ writes = <<>>
        /\ store \in InitStores
        /\ progress = <<>>
        /\ ~done

\* a page request failed after an earlier page had given tracks
C2_Witness ==
    /\ errors = <<"HTTPError">>
    /\ Len(http_log) >= 3
    /\ all_tracks # <<>>
    /\ pc = "tab2"

C4_CompletionAtFullProgress ==
    done => (progress # <<>> /\ progress[Len(progress)][1] = progress[Len(progress)][2])

\* C4 (amended): the progress values are 1/N, 2/N, ... in that order, one
\* after each track tried, uploaded or skipped; completion is declared only
\* after N of them, the last being N/N when N >= 1; for N = 0 no value is
\* reported at all and completion is declared all the same.
C4_ProgressAfterEachTrack ==
    /\ \A k \in 1..Len(progress) : progress[k] = <<k, Len(canciones)>>
    /\ pc \in {"loop", "download", "downloaded", "uploaded"} => Len(progress) = i
    /\ done => Len(progress) = Len(canciones)

\* three tracks, one of them skipped, and the values 1/3, 2/3, 3/3
C4_Witness ==
    /\ done
    /\ progress = << <<1, 3>>, <<2, 3>>, <<3, 3>> >>
    /\ NoPath \in Range(fetch_log)
    /\ writes # <<>>

\* C5: a track's temporary directory is its own (it starts empty), it is the
\* only one while the track is worked on, and none is left between tracks or
\* when the sync has ended, with or without an error.
C5_TmpDirScoped ==
    /\ Cardinality(DOMAIN tmp_dirs) <= 1
    /\ pc \in {"download", "downloaded", "uploaded"} => DOMAIN tmp_dirs = {i}
    /\ pc = "download" => tmp_dirs[i] = {}
    /\ pc \notin {"download", "downloaded", "uploaded"} => DOMAIN tmp_dirs = {}

\* the upload of the second track raised, and no directory is left
C5_Witness ==
    /\ errors = <<"UploadError">>
    /\ i = 1
    /\ pc = "tab2"
    /\ DOMAIN tmp_dirs = {}

\* C8: when the fetch or the upload of track k raises, the run ends with that
\* one error: no later track is fetched or uploaded, no progress value is
\* reported for k or later, completion is not declared, and what was written
\* for the tracks before k stays in the store.
C8_TrackErrorAbortsRun ==
    TrackRaised =>
        /\ pc = "tab2"
        /\ Len(errors) = 1
        /\ ~done
        /\ i < Len(canciones)
        /\ Len(progress) = i
        /\ Len(fetch_log) = IF errors[1] = "DownloadError" THEN i ELSE i + 1
        /\ Len(writes) <= i
        /\ Range(writes) \subseteq store

\* the fetch of the second of three tracks raised after the first was written
C8_Witness ==
    /\ errors = <<"DownloadError">>
    /\ Len(canciones) = 3
    /\ i = 1
    /\ Len(writes) = 1
    /\ writes[1] \in store

(***************************************************************************)
(* get_playlist_tracks alone (SpecResolve)                                 *)
(***************************************************************************)

\* the most entries a playlist of the resolution runs has, over all its pages
MaxItems == 3

\* the most pages a playlist of the resolution runs comes in
MaxPages == 3

ResolveEntries == {SongOne, SongTwo, Nameless, NoArtists, NoTrack}

\* the call get_playlist_tracks(playlist_url) of the start-sync handler
InitResolve ==
    /\ access_config = EnvConfig("s3cret")
    /\ query_code = NoCode
    /\ ServerAmong(ResolveEntries, MaxItems, MaxPages)
    /\ store = {}
    /\ tmp_dirs = [x \in {} |-> {}]
    /\ authenticated = TRUE
    /\ current_index = NoIndex
    /\ selected_playlist = <<>>
    /\ playlist_url = GoodUrl
    /\ folder_name = <<"x">>
    /\ pc = "token"
    /\ event = SyncEvent
    /\ run_auth = TRUE
    /\ Fresh

NextResolve == Resolve

SpecResolve == InitResolve /\ [][NextResolve]_vars

\* the entries of a page the claim keeps: those with a name and an artist
KeptEntries(items) ==
    SelectSeq(items, LAMBDA e : ~(e.name = <<>> \/ e.artists = <<>>))

\* the labels of the kept entries of pages 1..n, in order
RECURSIVE KeptLabels(_, _)
KeptLabels(pages, n) ==
    IF n = 0 THEN <<>>
    ELSE KeptLabels(pages, n - 1) \o
         [k \in 1..Len(KeptEntries(pages[n].items)) |->
            Label(KeptEntries(pages[n].items)[k].name,
                  KeptEntries(pages[n].items)[k].artists)]

\* the requests for pages 1..n: the tracks URL, then each next pointer
PageRequests(n) ==
    [k \in 1..n |-> IF k = 1 THEN TracksUrl(KnownId) ELSE NextUrl(k)]

\* C6: the resolution requests every page once and in order, from the first
\* until the next pointer is absent, and returns the labels of the kept
\* entries in order, an entry being dropped exactly when its name or its
\* list of artists is empty.
C6_AllPagesInOrderFiltered ==
    pc = "resolved" =>
        /\ http_log = <<TokenUrl>> \o PageRequests(Len(server.pages))
        /\ all_tracks = KeptLabels(server.pages, Len(server.pages))
        /\ url = NoUrl
        /\ errors = <<>>

\* three pages, a kept track on the first and the last, a dropped entry between
C6_Witness ==
    /\ pc = "resolved"
    /\ Len(server.pages) = 3
    /\ server.pages[1].items = <<SongOne>>
    /\ server.pages[2].items = <<NoArtists>>
    /\ server.pages[3].items = <<SongTwo>>
    /\ Len(all_tracks) = 2
    /\ Len(http_log) = 4

(***************************************************************************)
(* extract_playlist_id alone (SpecExtract)                                 *)
(***************************************************************************)

\* the most "/"-separated parts a URL of the extraction runs has
MaxParts == 3

\* the parts URLs are made of
UrlPartChoices ==
    {<<>>, Rep("p", 3), Rep("a", IdLen - 1), Rep("a", IdLen + 1),
     KnownId, OtherId, HostLike}

\* what may follow the path: nothing, or a query string
QueryChoices ==
    {<<>>, <<"?">> \o Rep("q", 3), <<"?", "u", "=">> \o OtherId \o <<"/">> \o OtherId}

ExtractUrls ==
    {pad \o Join(<<"/">>, parts) \o query \o pad :
        pad \in {<<>>, <<" ">>},
        parts \in UNION {[1..n -> UrlPartChoices] : n \in 1..MaxParts},
        query \in QueryChoices}

\* the call extract_playlist_id(playlist_url) of get_playlist_tracks
InitExtract ==
    /\ access_config = EnvConfig("s3cret")
    /\ query_code = NoCode
    /\ server = MkServer(<< <<SongOne>> >>)
    /\ store = {}
    /\ tmp_dirs = [x \in {} |-> {}]
    /\ authenticated = TRUE
    /\ current_index = NoIndex
    /\ selected_playlist = <<>>
    /\ playlist_url \in ExtractUrls
    /\ folder_name = <<"x">>
    /\ pc = "extract"
    /\ event = SyncEvent
    /\ run_auth = TRUE
    /\ safe_name = <<"x">>
    /\ playlist_id = <<>>
    /\ url = NoUrl
    /\ all_tracks = <<>>
    /\ canciones = <<>>
    /\ i = 0
    /\ downloaded = NoPath
    /\ errors = <<>>
    /\ progress = <<>>
    /\ done = FALSE
    /\ http_log = <<TokenUrl>>
    /\ fetch_log = <<>>
    /\ writes = <<>>
    /\ selector_call = NoCall
    /\ run_ops = {"sync"}

NextExtract == ExtractId

SpecExtract == InitExtract /\ [][NextExtract]_vars

\* the well-formed identifiers among the path's parts, the query string removed
PathIds ==
    {UrlParts(playlist_url)[k] : k \in {j \in 1..Len(UrlParts(playlist_url)) :
                                          IsValidId(UrlParts(playlist_url)[j])}}

\* C7 (as claimed): from a URL one of whose parts is a playlist identifier, at
\* any position, with or without a query string, the extraction returns that
\* identifier; from a URL none of whose parts has IdLen characters it fails.
C7_ExtractsTheIdentifier ==
    pc # "extract" =>
        /\ \A d \in PathIds :
              PathIds = {d} => (pc = "page" /\ playlist_id = d)
        /\ (\A k \in 1..Len(UrlParts(playlist_url)) :
               Len(UrlParts(playlist_url)[k]) # IdLen) =>
              (pc = "tab2" /\ errors = <<"ValueError">>)

(***************************************************************************)
(* The access gate and tab 2, and whole sessions (SpecSession)             *)
(***************************************************************************)

\* the access code check_access compares with
SECRET_CODE == get_secret(access_config, DefaultCode)

\* a variant of CheckAccess: the script is not stopped after the login form
CheckAccessNoStop ==
    /\ pc = "check_access"
    /\ IF authenticated
       THEN /\ pc' = "tab1"
            /\ UNCHANGED <<authenticated, event, run_auth, safe_name,
                           resolveVars, canciones, i, downloaded, errors,
                           progress, done, fetch_log, writes, selector_call,
                           run_ops>>
       ELSE IF query_code = SECRET_CODE \/ (event.kind = "login" /\ event.code = SECRET_CODE)
       THEN /\ authenticated' = TRUE
            /\ StartRun(NoEvent, TRUE)
       ELSE /\ errors' = Append(errors, "Acceso denegado")
            /\ pc' = "tab1"
            /\ UNCHANGED <<authenticated, event, run_auth, safe_name,
                           resolveVars, canciones, i, downloaded, progress,
                           done, fetch_log, writes, selector_call, run_ops>>
    /\ UNCHANGED <<env, widgets, store, tmp_dirs, current_index>>

\* check_access: it returns for an authenticated session; a matching code (of
\* the query string, or of the login form) sets the flag and reruns the
\* script; anything else shows the form and stops the script
CheckAccess ==
    /\ pc = "check_access"
    /\ IF authenticated
       THEN /\ pc' = "tab1"
            /\ UNCHANGED <<authenticated, event, run_auth, safe_name,
                           resolveVars, canciones, i, downloaded, errors,
                           progress, done, fetch_log, writes, selector_call,
                           run_ops>>
       ELSE IF query_code = SECRET_CODE
       THEN /\ authenticated' = TRUE
            /\ StartRun(NoEvent, TRUE)
       ELSE IF event.kind = "login" /\ event.code = SECRET_CODE
       THEN /\ authenticated' = TRUE
            /\ StartRun(NoEvent, TRUE)
       ELSE /\ errors' = IF event.kind = "login"
                         THEN errors \o <<"Acceso denegado", "Codigo incorrecto">>
                         ELSE Append(errors, "Acceso denegado")
            /\ pc' = "idle"
            /\ UNCHANGED <<authenticated, event, run_auth, safe_name,
                           resolveVars, canciones, i, downloaded, progress,
                           done, fetch_log, writes, selector_call, run_ops>>
    /\ UNCHANGED <<env, widgets, store, tmp_dirs, current_index>>

\* the calls of the bucket that may fail in tab 2
StorageFailures == {"none", "list_playlists", "list_songs_in_playlist", "get_song_data"}

\* tab 2 is done and the script ends
Tab2End(index, playlist, shown, call, ops) ==
    /\ current_index' = index
    /\ selected_playlist' = playlist
    /\ errors' = shown
    /\ selector_call' = call
    /\ run_ops' = run_ops \cup ops
    /\ pc' = "idle"
    /\ UNCHANGED <<env, store, tmp_dirs, authenticated, playlist_url,
                   folder_name, event, safe_name, resolveVars, canciones, i,
                   downloaded, progress, done, fetch_log, writes, run_auth>>

\* st.rerun() in tab 2
Tab2Rerun(index, playlist) ==
    /\ current_index' = index
    /\ selected_playlist' = playlist
    /\ StartRun(NoEvent, authenticated)
    /\ UNCHANGED <<env, store, tmp_dirs, authenticated, playlist_url, folder_name>>

\* the song selectbox called with this index over n options
SelectorCall(index, n) == [called |-> TRUE, index |-> index, options |-> n]

\* tab 2: the playlists, the selected one's songs, the song to play
Tab2 ==
    /\ pc = "tab2"
    /\ IF event.kind = "refresh"
       THEN Tab2Rerun(current_index, selected_playlist)
       ELSE \E fail \in StorageFailures :
         IF fail = "list_playlists"
         THEN Tab2End(current_index, selected_playlist,
                      Append(errors, "StorageError"), NoCall, {"list"})
         ELSE LET playlists == list_playlists(store) IN
           IF playlists = {}
           THEN Tab2End(current_index, selected_playlist, errors, NoCall, {"list"})
           ELSE \E first \in playlists :
             LET playlist ==
                   IF event.kind = "pick_playlist" /\ event.playlist \in playlists
                   THEN event.playlist
                   ELSE IF selected_playlist \in playlists
                   THEN selected_playlist
                   ELSE first
             IN
             IF playlist = <<>>
             THEN Tab2End(current_index, playlist, errors, NoCall, {"list"})
             ELSE IF fail = "list_songs_in_playlist"
             THEN Tab2End(current_index, playlist,
                          Append(errors, "StorageError"), NoCall, {"list"})
             ELSE LET n == Cardinality(list_songs_in_playlist(store, playlist)) IN
               IF n = 0
               THEN Tab2End(current_index, playlist, errors, NoCall, {"list"})
               ELSE \E random \in 0..(n - 1) :
                 LET index == IF current_index = NoIndex
                              THEN random ELSE current_index
                 IN
                 IF event.kind = "next"
                 THEN Tab2Rerun(random, playlist)
                 ELSE IF ~(0 <= index /\ index < n)
                 THEN Tab2End(index, playlist,
                              Append(errors, "StreamlitAPIException"),
                              SelectorCall(index, n), {"list"})
                 ELSE LET selected_index ==
                            IF event.kind = "pick_song" /\ event.index < n
                            THEN event.index ELSE index
                      IN  Tab2End(selected_index, playlist,
                                  IF fail = "get_song_data"
                                  THEN Append(errors, "StorageError")
                                  ELSE errors,
                                  SelectorCall(index, n), {"list", "read"})

\* the codes typed into the login form
Codes == {"s3cret", DefaultCode, "wrong", ""}

\* what is typed into the form of tab 1 in the sessions
SessionUrls == {GoodUrl, ShortIdUrl}

SessionFolderNames == {<<"a">>}

\* the widget events that start a run
Events ==
    {[NoEvent EXCEPT !.kind = k] : k \in {"load", "edit", "sync", "refresh", "next"}}
    \cup {[NoEvent EXCEPT !.kind = "login", !.code = c] : c \in Codes}
    \cup {[NoEvent EXCEPT !.kind = "pick_song", !.index = j] :
             j \in IF selector_call.called THEN 0..(selector_call.options - 1) ELSE {}}
    \cup {[NoEvent EXCEPT !.kind = "pick_playlist", !.playlist = p] :
             p \in list_playlists(store)}

\* the user acts on a widget (or loads the page again) and the script runs
UserEvent ==
    /\ pc = "idle"
    /\ \E ev \in Events :
         /\ StartRun(ev, authenticated)
         /\ IF ev.kind = "edit"
            THEN /\ playlist_url' \in SessionUrls
                 /\ folder_name' \in SessionFolderNames
            ELSE UNCHANGED <<playlist_url, folder_name>>
    /\ UNCHANGED <<env, store, tmp_dirs, authenticated, current_index,
                   selected_playlist>>

\* where the access code is configured, in the sessions
SessionConfigs ==
    {EnvConfig("s3cret"),
     [env |-> "", secrets |-> NoCode, file |-> NoCode],
     [env |-> NoCode, secrets |-> "", file |-> "s3cret"]}

\* the bucket as a session finds it
SessionStores ==
    {{}, {KeyOf(<<"x">>, SongOneFile), KeyOf(<<"x">>, SongTwoFile),
          KeyOf(<<"a">>, SongOneFile)}}

\* a new session: the first run of the script
InitSession ==
    /\ access_config \in SessionConfigs
    /\ query_code \in {NoCode, "s3cret"}
    /\ server = MkServer(<< <<SongOne>>, <<>> >>)
    /\ store \in SessionStores
    /\ tmp_dirs = [x \in {} |-> {}]
    /\ authenticated = FALSE
    /\ current_index = NoIndex
    /\ selected_playlist = <<>>
    /\ playlist_url = <<>>
    /\ folder_name = <<>>
    /\ pc = "check_access"
    /\ event = NoEvent
    /\ run_auth = FALSE
    /\ Fresh

NextSession == UserEvent \/ CheckAccess \/ Sync \/ Tab2

SpecSession == InitSession /\ [][NextSession]_vars

\* C9 (as claimed): whenever the song selectbox is called, the index it is
\* given (the session's current_index) is an index of the song list shown.
C9_IndexWithinSongs ==
    selector_call.called =>
        (0 <= selector_call.index /\ selector_call.index < selector_call.options)

\* the code the run was given: the query string's, or the login form's
CodeGiven(code) ==
    query_code = code \/ (event.kind = "login" /\ event.code = code)

\* C10: a run syncs, lists, reads or writes only if the session was
\* authenticated as the run began; the flag becomes true only in a run that
\* was given the configured access code, and once true it stays true.
C10_GateBeforeStorage ==
    /\ [](run_ops # {} => (run_auth /\ authenticated))
    /\ [][(~authenticated /\ authenticated') => CodeGiven(SECRET_CODE)]_vars
    /\ [][authenticated => authenticated']_vars
    /\ [][(pc' = "check_access" /\ pc # "check_access") => run_auth' = authenticated]_vars

\* a run of a session that logged in through the form has synced, written,
\* listed and read
C10_Witness ==
    /\ query_code = NoCode
    /\ authenticated
    /\ pc = "idle"
    /\ run_ops = {"sync", "write", "list", "read"}

====
